---- MODULE Spec2Model ----
(***************************************************************************)
(* State-machine model of freqopttest/tst.py: the two-sample tests         *)
(* (HotellingT2Test, GammaMMDTest, SmoothCFTest, MeanEmbeddingTest), the   *)
(* seeded constructors and the two gradient-ascent optimizers              *)
(* optimize_T_gaussian_width and optimize_gaussian_width.                  *)
(*                                                                         *)
(* Numbers are fixed point.  The unconstrained width variable gamma_sq,    *)
(* T and the step sizes are in units of 1e-4; gradients and the decay      *)
(* factor it**-0.5 are in units of 1e-3; objective values are in units of  *)
(* the default tol_fun (1e-3).  J = d = 1 in the optimizer, so T is a      *)
(* scalar and gra_T/||gra_T|| is the sign of gra_T.                        *)
(***************************************************************************)
EXTENDS Integers, Sequences, FiniteSets, TLC

\* ------------------------------------------------------------------ bounds
MaxIter == 4          \* max_iter ranges over 1..MaxIter
MaxN == 3             \* sample sizes range up to MaxN
RngMod == 5           \* number of states of the modelled random generator
MaxSeed == 2          \* seeds range over 1..MaxSeed

\* ------------------------------------------------------- program constants
TolFun == 1           \* tol_fun default 1e-3, the unit of objective values
GammaEps == 1         \* the 1e-4 added to mean_std()**0.5
MaxGamSqStep == 1000  \* max_gam_sq_step = 1.0 in units of 1e-3
Milli == MaxGamSqStep  \* fixed-point scale of gradients and of the decay: 1.0

\* ----------------------------------------------------------------- helpers
Abs(x) == IF x < 0 THEN -x ELSE x

Sgn(x) == IF x > 0 THEN 1 ELSE IF x < 0 THEN -1 ELSE 0

Min2(a, b) == IF a <= b THEN a ELSE b

\* floor of the square root of a natural number, by Newton's iteration
RECURSIVE NewtonSqrt(_, _)
NewtonSqrt(n, x) ==
    LET y == (x + n \div x) \div 2
    IN  IF y >= x THEN x ELSE NewtonSqrt(n, y)

ISqrt(n) == IF n = 0 THEN 0 ELSE NewtonSqrt(n, n)

\* it**step_pow with step_pow = 0.5, as the factor 1/it**0.5 in units of 1e-3
DecayMilli(i) == ISqrt((Milli * Milli) \div i)

\* int(x) of a non-negative rational num/den: truncation
PyInt(num, den) == num \div den

\* numpy slice a[:n] of a sequence, n possibly negative
PySlice(a, n) ==
    IF n >= 0 THEN SubSeq(a, 1, Min2(n, Len(a)))
    ELSE SubSeq(a, 1, IF Len(a) + n > 0 THEN Len(a) + n ELSE 0)

\* np.zeros(n)
Zeros(n) == [i \in 1..n |-> 0]

\* ------------------------------------------- the global numpy random state
RngStates == 0..(RngMod - 1)

\* np.random.seed(seed): the state depends on the seed alone
SeedState(seed) == (2 * seed + 1) % RngMod

\* every draw advances the generator
RngNext(st) == (st + 1) % RngMod

\* np.random.randn(J, d) with J = d = 1: the value drawn in state st
Randn(st) == ((st % 5) - 2) * Milli

\* np.random.multivariate_normal(mean_xy, cov_xy, n_test_locs): mean 0 and
\* standard deviation mean_std**0.5 of the pooled sample
MultivariateNormal(st, ms) == (Randn(st) * ISqrt(ms)) \div Milli

\* np.random.choice(n, k, replace=False): k distinct indices of 0..n-1
Choice(st, n, k) == {(st + i) % n : i \in 0..(k - 1)}

\* ------------------------------------------------------- optimizer: inputs
JointEntries == {"optimize_freqs_width", "optimize_locs_width"}

Entries == JointEntries \cup {"optimize_gwidth"}

\* batch_proportion in (0,1] as a fraction num/den
BatchProportions == {<<1, 1>>, <<1, 2>>, <<1, 4>>}

\* tst_data.mean_std() in units of 1e-8, so that its square root is in 1e-4
MeanStds == {9801, 40000}

\* gwidth_step_size (0.01, the default of the joint entry points)
GWidthStepSizes == {100}

\* T handed to optimize_gwidth by its caller
TArgs == {Milli}

\* freqs_step_size = 0.2 and locs_step_size = 0.1
TStepSize(entry) == IF entry = "optimize_freqs_width" THEN 2 * Milli ELSE Milli

\* What one call of the compiled theano function func(X[ind], Y[ind]) can
\* answer: the objective s with its gradients, or a numerical fault raised by
\* matrix_inverse.  gT is the direction gra_T/||gra_T||.
Values ==
    << [fault |-> FALSE, s |-> 0, g |-> -2 * Milli, gT |-> -1],
       [fault |-> FALSE, s |-> 1, g |-> 0, gT |-> 1],
       [fault |-> FALSE, s |-> 3, g |-> Milli \div 2, gT |-> 1],
       [fault |-> FALSE, s |-> 1, g |-> 2 * Milli, gT |-> -1],
       [fault |-> FALSE, s |-> 3, g |-> -(Milli \div 2), gT |-> -1] >>

FaultResponse == [fault |-> TRUE, s |-> 0, g |-> 0, gT |-> 1]

Responses == {Values[i] : i \in 1..Len(Values)} \cup {FaultResponse}

\* func on one fixed data set: the answer is a function of the rows of the
\* batch and of the shared variables T and gamma_sq_th
RECURSIVE SumSet(_)
SumSet(A) == IF A = {} THEN 0 ELSE LET a == CHOOSE x \in A : TRUE
                                    IN  a + SumSet(A \ {a})

FuncOnData(ind, Tv, gsq) ==
    Values[1 + ((2 * SumSet(ind) + Cardinality(ind) + (Abs(Tv) \div Milli)
                 + Abs(gsq)) % Len(Values))]

VARIABLES
    args,       \* arguments of the running optimizer call
    pc,         \* "idle", "loop", "after", "done", "raised"
    rng,        \* the process-wide numpy random state
    rng0,       \* history: rng when the call started
    t,          \* the loop variable of "for t in range(max_iter)"
    it,         \* theano shared iteration counter
    gamma_sq,   \* theano shared gamma_sq_th, the unconstrained width variable
    T,          \* theano shared T
    S,          \* objective values buffer
    Ts,         \* T snapshots buffer (joint optimizer)
    gams,       \* Gaussian widths buffer
    ret,        \* what the call returned or raised
    evals,      \* history: objective values of the completed iterations
    grads,      \* history: gradient w.r.t. gamma_sq_th at the completed iterations
    faultAt,    \* history: 1-based iteration whose evaluation raised, or 0
    batches,    \* history: mini-batch index sets drawn so far
    prev        \* summary of the previous call of the same entry point

optVars == <<args, pc, rng, rng0, t, it, gamma_sq, T, S, Ts, gams, ret,
             evals, grads, faultAt, batches, prev>>

\* the two-sample tests
VARIABLES
    tst,        \* the test object (cls, alpha, T, gamma) and its tst_data (X, Y)
    tpc,        \* "new", "z", "stat", "tested"
    zres,       \* features of (X, Y) and of the swapped pair (Y, X)
    stat,       \* compute_stat of (X, Y) and of the swapped pair (Y, X)
    res,        \* what perform_test(tst_data) returned or raised
    solve_nan   \* what np.linalg.solve does with a NaN matrix in this build

testVars == <<tst, tpc, zres, stat, res, solve_nan>>

\* the seeded draws of two callers
VARIABLES
    cpc,        \* per caller: "get_state", "seed", "draw", "construct",
                \* "set_state", "done", "raised"
    cargs,      \* per caller: the function called, its seed, the data's mean_std
    rand_state, \* per caller: the local rand_state
    drawn       \* per caller: the T or T0 drawn

concVars == <<cpc, cargs, rand_state, drawn>>

\* one evaluation of the objective of the compiled function on a mini-batch
VARIABLES
    evalpc,     \* "none", "data", "batch", "evaluated"
    Zrows,      \* the features Z of the whole sample, one column (J = 1)
    rowsIn,     \* ind, the indices of the rows handed to func
    Wval,       \* W of the evaluation
    sval        \* s of the evaluation, or the exception of matrix_inverse

objVars == <<evalpc, Zrows, rowsIn, Wval, sval>>

\* what a seeded draw leaves alone: the optimizer's state but the generator
optIdle == <<args, pc, rng0, t, it, gamma_sq, T, S, Ts, gams, ret, evals,
             grads, faultAt, batches, prev>>

NoArgs == [entry |-> "none", max_iter |-> 0, bp |-> <<1, 1>>, nx |-> 0,
           seed |-> 0, mean_std |-> 0, gwidth_step_size |-> 0, T0 |-> 0]

NoRet == [kind |-> "none", exc |-> "", T |-> 0, gwidth |-> 0,
          Ts |-> <<>>, gwidths |-> <<>>, obj_values |-> <<>>]

NoPrev == [valid |-> FALSE, args |-> NoArgs, batches |-> <<>>, ret |-> NoRet]

IsJoint == args.entry \in JointEntries

\* -------------------------------------------- optimizer: the entry points
\* SmoothCFTest.optimize_freqs_width draws T0 with randn,
\* MeanEmbeddingTest.optimize_locs_width with init_locs_randn; both seed the
\* global generator for the draw and put the saved state back afterwards.
DrawT0(entry, seed, ms) ==
    IF entry = "optimize_freqs_width" THEN Randn(SeedState(seed))
    ELSE MultivariateNormal(SeedState(seed), ms)

\* gamma_sq_init = 1e-4 + tst_data.mean_std()**0.5
GammaSqInit(ms) == GammaEps + ISqrt(ms)

\* The call up to the first iteration: the seeded draw of T0 (joint entry
\* points), the theano shared variables and the np.zeros buffers.
Enter(a) ==
    /\ args' = a
    /\ rng0' = rng
    /\ rng' = rng    \* np.random.set_state(rand_state); optimize_gwidth never seeds
    /\ t' = 0
    /\ it' = 1
    /\ gamma_sq' = GammaSqInit(a.mean_std)
    /\ T' = a.T0
    /\ S' = Zeros(a.max_iter)
    /\ Ts' = IF a.entry \in JointEntries THEN Zeros(a.max_iter) ELSE <<>>
    /\ gams' = Zeros(a.max_iter)
    /\ ret' = NoRet
    /\ evals' = <<>>
    /\ grads' = <<>>
    /\ faultAt' = 0
    /\ batches' = <<>>
    /\ pc' = "loop"
    /\ UNCHANGED <<testVars, concVars, objVars>>

Call ==
    /\ pc = "idle"
    /\ \E e \in Entries, mi \in 1..MaxIter, b \in BatchProportions,
          n \in MaxN..MaxN, sd \in 1..MaxSeed, ms \in MeanStds,
          gs \in GWidthStepSizes, ta \in TArgs :
          Enter([entry |-> e, max_iter |-> mi, bp |-> b, nx |-> n,
                 seed |-> IF e \in JointEntries THEN sd ELSE 0,
                 mean_std |-> ms, gwidth_step_size |-> gs,
                 T0 |-> IF e \in JointEntries THEN DrawT0(e, sd, ms) ELSE ta])
    /\ UNCHANGED prev

\* ------------------------------------------------ optimizer: one iteration
\* min(int(batch_proportion*nx), nx)
BatchSize(b, n) == Min2(PyInt(b[1] * n, b[2]), n)

\* T + T_step_size*gra_T/it**step_pow/tensor.sum(gra_T**2)**0.5
UpdateT(Tv, step, gT, i) == Tv + gT * ((step * DecayMilli(i)) \div Milli)

\* the same step with the decay read after (it, it+1) has been applied
UpdateGammaSqIncremented(gsq, step, g, i) ==
    gsq + Sgn(g) * ((step * Min2(Abs(g), MaxGamSqStep) * DecayMilli(i + 1))
                     \div (Milli * Milli))

\* gamma_sq_th + gwidth_step_size*sgn(g)*minimum(abs(g), max_gam_sq_step)/it**step_pow
UpdateGammaSq(gsq, step, g, i) ==
    gsq + Sgn(g) * ((step * Min2(Abs(g), MaxGamSqStep) * DecayMilli(i))
                     \div (Milli * Milli))

\* gams[t] = gamma_sq_th.get_value()**2
Sqr(x) == x * x

\* the check made from the second iteration on (t >= 1)
ConvergedFromSecond(tt, Sv) == tt >= 1 /\ Abs(Sv[tt + 1] - Sv[tt]) <= TolFun

\* if t >= 2 and abs(S[t]-S[t-1]) <= tol_fun: break   (t is 0-based, the
\* buffers of the model are 1-based)
Converged(tt, Sv) == tt >= 2 /\ Abs(Sv[tt + 1] - Sv[tt]) <= TolFun

\* The loop body at index t with the answer resp of func.  An empty batch
\* makes Sig the zero matrix, so matrix_inverse raises whatever the data.
IterateWith(resp) ==
    LET ind == Choice(rng, args.nx, BatchSize(args.bp, args.nx))
        r == IF ind = {} THEN FaultResponse ELSE resp
        S1 == [S EXCEPT ![t + 1] = r.s]
        T1 == IF IsJoint THEN UpdateT(T, TStepSize(args.entry), r.gT, it) ELSE T
        g1 == UpdateGammaSq(gamma_sq, args.gwidth_step_size, r.g, it)
    IN  /\ pc = "loop"
        /\ rng' = RngNext(rng)
        /\ batches' = Append(batches, ind)
        /\ UNCHANGED <<args, rng0, prev, testVars, concVars, objVars>>
        /\ IF r.fault
           THEN /\ faultAt' = t + 1
                /\ UNCHANGED <<it, gamma_sq, T, S, Ts, gams, evals, grads>>
                /\ IF IsJoint
                   THEN \* except: ... t = t - 1; break
                        /\ t' = t - 1
                        /\ pc' = "after"
                        /\ ret' = ret
                   ELSE \* optimize_gaussian_width has no try/except
                        /\ t' = t
                        /\ pc' = "raised"
                        /\ ret' = [NoRet EXCEPT !.kind = "raise",
                                                !.exc = "LinAlgError"]
           ELSE /\ S' = S1
                /\ T' = T1
                /\ it' = it + 1
                /\ gamma_sq' = g1
                /\ Ts' = IF IsJoint THEN [Ts EXCEPT ![t + 1] = T1] ELSE Ts
                /\ gams' = [gams EXCEPT ![t + 1] = Sqr(g1)]
                /\ evals' = Append(evals, r.s)
                /\ grads' = Append(grads, r.g)
                /\ UNCHANGED <<faultAt, ret>>
                /\ IF Converged(t, S1) \/ t + 1 >= args.max_iter
                   THEN t' = t /\ pc' = "after"
                   ELSE t' = t + 1 /\ pc' = "loop"

Iterate == \E resp \in Responses : IterateWith(resp)

\* ------------------------------------------------ optimizer: after the loop
\* S = S[:t+1]; Ts = Ts[:t+1]; gams = gams[:t+1] in optimize_T_gaussian_width
JointCut(tt) == tt + 1

\* S = S[:t]; gams = gams[:t] in optimize_gaussian_width
WidthCut(tt) == tt

\* The slicing of the buffers and the return statement; a[-1] of an empty
\* array raises IndexError.
Return ==
    LET n == IF IsJoint THEN JointCut(t) ELSE WidthCut(t)
        S1 == PySlice(S, n)
        Ts1 == PySlice(Ts, n)
        gams1 == PySlice(gams, n)
        empty == IF IsJoint THEN Len(Ts1) = 0 ELSE Len(gams1) = 0
    IN  /\ pc = "after"
        /\ S' = S1
        /\ Ts' = Ts1
        /\ gams' = gams1
        /\ IF empty
           THEN /\ pc' = "raised"
                /\ ret' = [NoRet EXCEPT !.kind = "raise", !.exc = "IndexError"]
           ELSE /\ pc' = "done"
                /\ ret' = [kind |-> "ok", exc |-> "",
                           T |-> IF IsJoint THEN Ts1[Len(Ts1)] ELSE args.T0,
                           gwidth |-> gams1[Len(gams1)],
                           Ts |-> Ts1, gwidths |-> gams1, obj_values |-> S1]
        /\ UNCHANGED <<args, rng, rng0, t, it, gamma_sq, T, evals, grads,
                       faultAt, batches, prev, testVars, concVars, objVars>>

\* =================================================== the two-sample tests
\* Samples are sequences of rows of dimension d = 2.  Feature values and
\* kernel values are in units of 1/10, p-values and alpha in units of 1/1000.
MaxRows == 3          \* samples have 1..MaxRows rows

\* the rows the first and the second sample are drawn from
XRowValues == {<<0, 0>>, <<2, 0>>}

YRowValues == {<<0, 0>>, <<0, 2>>}

XSamples == UNION {[1..n -> XRowValues] : n \in 1..MaxRows}

YSamples == UNION {[1..n -> YRowValues] : n \in 1..MaxRows}

Classes == {"HotellingT2Test", "GammaMMDTest", "SmoothCFTest", "MeanEmbeddingTest"}

\* alpha = 0.01 (the default) and 0.05
Alphas == {10, 50}

\* gaussian_width > 0, as the setter demands
GaussianWidths == {1, 2}

\* test_freqs (J = 1) of SmoothCFTest and test_locs (J = 2) of MeanEmbeddingTest
TestFreqs == {<< <<1, 0>> >>, << <<1, 1>> >>}

TestLocs == {<< <<0, 0>>, <<1, 1>> >>, << <<1, 0>>, <<0, 2>> >>}

\* 10*exp(-k/2), rounded
ExpNegHalf(k) ==
    LET tab == <<10, 6, 4, 2, 1, 1>>
    IN  IF k + 1 <= Len(tab) THEN tab[k + 1] ELSE 0

\* 10*sin(k) and 10*cos(k) for k radians, rounded
Sin10(k) ==
    LET tab == <<0, 8, 9, 1, -8, -10, -3, 7, 10>>
    IN  IF k >= 0 THEN tab[k + 1] ELSE -tab[1 - k]

Cos10(k) ==
    LET tab == <<10, 5, -4, -10, -7, 3, 10, 8, -1>>
    IN  tab[Abs(k) + 1]

Dot(u, v) == u[1] * v[1] + u[2] * v[2]

\* X/gamma, row by row
DivRows(X, gamma) == [i \in 1..Len(X) |-> <<X[i][1] \div gamma, X[i][2] \div gamma>>]

\* a + b where the code subtracts
MatAdd(a, b) == [i \in 1..Len(a) |-> [j \in 1..Len(a[i]) |-> a[i][j] + b[i][j]]]

\* a - b of two matrices with equal row counts
MatSub(a, b) == [i \in 1..Len(a) |-> [j \in 1..Len(a[i]) |-> a[i][j] - b[i][j]]]

\* numpy's g - h: a one-row operand is broadcast over the rows of the other,
\* any other mismatch of the row counts raises ValueError
NumpySub(g, h) ==
    IF Len(g) = Len(h) THEN [kind |-> "ok", z |-> MatSub(g, h)]
    ELSE IF Len(h) = 1
    THEN [kind |-> "ok", z |-> MatSub(g, [i \in 1..Len(g) |-> h[1]])]
    ELSE IF Len(g) = 1
    THEN [kind |-> "ok", z |-> MatSub([i \in 1..Len(h) |-> g[1]], h)]
    ELSE [kind |-> "raise", z |-> <<>>]

\* SmoothCFTest.construct_z: hstack((sin(x_freq)*fx, cos(x_freq)*fx)) per
\* sample, the two samples subtracted; raises when the row counts differ
SmoothCFFeatures(X, test_freqs, gamma) ==
    LET Xs == DivRows(X, gamma)
        J == Len(test_freqs)
        fx(i) == ExpNegHalf(Dot(Xs[i], Xs[i]))
        x_freq(i, j) == Dot(Xs[i], test_freqs[j])
    IN  [i \in 1..Len(X) |->
            [c \in 1..(2 * J) |->
                IF c <= J THEN (Sin10(x_freq(i, c)) * fx(i)) \div 10
                ELSE (Cos10(x_freq(i, c - J)) * fx(i)) \div 10]]

SmoothCF_construct_z(X, Y, test_freqs, gamma) ==
    IF Len(X) # Len(Y) THEN [kind |-> "raise", z |-> <<>>]
    ELSE [kind |-> "ok",
          z |-> MatSub(SmoothCFFeatures(X, test_freqs, gamma),
                       SmoothCFFeatures(Y, test_freqs, gamma))]

\* MeanEmbeddingTest.asym_gauss_kernel: K = exp(-D2), D2 = |x/gamma - t|^2
asym_gauss_kernel(X, test_locs, gamma) ==
    LET Xs == DivRows(X, gamma)
        D2(i, j) == Dot(Xs[i], Xs[i]) - 2 * Dot(Xs[i], test_locs[j])
                    + Dot(test_locs[j], test_locs[j])
    IN  [i \in 1..Len(X) |-> [j \in 1..Len(test_locs) |-> ExpNegHalf(2 * D2(i, j))]]

\* Z = g - h in MeanEmbeddingTest.compute_stat
MeanEmbedding_z(X, Y, test_locs, gamma) ==
    NumpySub(asym_gauss_kernel(X, test_locs, gamma),
             asym_gauss_kernel(Y, test_locs, gamma))

\* ------------------------------------------------------------ statistics
RECURSIVE Gcd(_, _)
Gcd(a, b) == IF b = 0 THEN a ELSE Gcd(b, a % b)

\* a statistic is a rational number in lowest terms, NaN, or an exception
Num(a, b) ==
    LET g == Gcd(Abs(a), Abs(b))
    IN  [kind |-> "num", num |-> (Sgn(b) * a) \div g, den |-> Abs(b) \div g, exc |-> ""]

NaN == [kind |-> "nan", num |-> 0, den |-> 0, exc |-> ""]

Raise(e) == [kind |-> "raise", num |-> 0, den |-> 0, exc |-> e]

RECURSIVE SumSeq(_)
SumSeq(q) == IF q = <<>> THEN 0 ELSE q[1] + SumSeq(Tail(q))

\* column sums and sums of products of the rows of a two-column matrix
ColSum(Z, j) == SumSeq([i \in 1..Len(Z) |-> Z[i][j]])

ProdSum(Z, j, k) == SumSeq([i \in 1..Len(Z) |-> Z[i][j] * Z[i][k]])

\* n(n-1) times np.cov(Z.T), entry (j, k)
CovNum(Z, j, k) == Len(Z) * ProdSum(Z, j, k) - ColSum(Z, j) * ColSum(Z, k)

\* n*np.linalg.solve(Sig, W).dot(W) with Sig = np.cov(Z.T), W = np.mean(Z, 0):
\* with C = CovNum and S the column sums, Sig = C/(nz(nz-1)), W = S/nz and
\* the value is n(nz-1) S'adj(C)S / (nz det C).  One row makes np.cov divide
\* 0 by 0: the matrix is NaN and solve returns NaN or raises; det C = 0
\* raises LinAlgError.
QuadStat(n, Z) ==
    LET nz == Len(Z)
        S1 == ColSum(Z, 1)
        S2 == ColSum(Z, 2)
        C11 == CovNum(Z, 1, 1)
        C12 == CovNum(Z, 1, 2)
        C22 == CovNum(Z, 2, 2)
        det == C11 * C22 - C12 * C12
        q == C22 * S1 * S1 - 2 * C12 * S1 * S2 + C11 * S2 * S2
    IN  IF nz = 1 THEN {NaN, Raise("LinAlgError")}
        ELSE IF det = 0 THEN {Raise("LinAlgError")}
        ELSE {Num(n * (nz - 1) * q, nz * det)}

\* SmoothCFTest.compute_stat
SmoothCF_compute_stat(X, Y, test_freqs, gamma) ==
    LET r == SmoothCF_construct_z(X, Y, test_freqs, gamma)
    IN  IF r.kind = "raise" THEN {Raise("ValueError")} ELSE QuadStat(Len(X), r.z)

\* MeanEmbeddingTest.compute_stat
MeanEmbedding_compute_stat(X, Y, test_locs, gamma) ==
    LET r == MeanEmbedding_z(X, Y, test_locs, gamma)
    IN  IF r.kind = "raise" THEN {Raise("ValueError")} ELSE QuadStat(Len(X), r.z)

\* HotellingT2Test.compute_stat: solve(sx/nx + sy/ny, mdiff).dot(mdiff).  With
\* m = ny*Sx - nx*Sy and M = Cx*ny^2(ny-1) + Cy*nx^2(nx-1) the value is
\* (nx-1)(ny-1) m'adj(M)m / det M.
Hotelling_compute_stat(X, Y) ==
    LET nx == Len(X)
        ny == Len(Y)
        m(j) == ny * ColSum(X, j) - nx * ColSum(Y, j)
        M(j, k) == CovNum(X, j, k) * ny * ny * (ny - 1)
                   + CovNum(Y, j, k) * nx * nx * (nx - 1)
        det == M(1, 1) * M(2, 2) - M(1, 2) * M(1, 2)
        q == M(2, 2) * m(1) * m(1) - 2 * M(1, 2) * m(1) * m(2)
             + M(1, 1) * m(2) * m(2)
    IN  IF nx = 1 \/ ny = 1 THEN {NaN, Raise("LinAlgError")}
        ELSE IF det = 0 THEN {Raise("LinAlgError")}
        ELSE {Num((nx - 1) * (ny - 1) * q, det)}

\* 1000*exp(-k/2): the chi-squared survival function with 2 degrees of
\* freedom, read at the integer part of the statistic
ExpHalfPermille(k) ==
    LET tab == <<1000, 607, 368, 223, 135, 82, 50, 30, 18, 11, 7, 4, 2, 2, 1>>
    IN  IF k + 1 <= Len(tab) THEN tab[k + 1] ELSE 0

\* stats.chi2.sf(stat, df): 1 below 0, NaN at NaN
Chi2Sf(s, df) ==
    IF s.kind = "nan" THEN [kind |-> "nan", v |-> 0]
    ELSE IF s.num < 0 THEN [kind |-> "num", v |-> 1000]
    ELSE [kind |-> "num", v |-> ExpHalfPermille((2 * (s.num \div s.den)) \div df)]

\* Python's pvalue < alpha: every comparison with NaN is False
PyLess(pvalue, alpha) == pvalue.kind = "num" /\ pvalue.v < alpha

\* ---------------------------------------------------------- GammaMMDTest
\* kernel.eval(X, Y) of the symmetric kernel handed to GammaMMDTest: a
\* Gaussian kernel exp(-|x - y|^2/2), in units of 1/10
KernelEval(X, Y) ==
    [i \in 1..Len(X) |-> [j \in 1..Len(Y) |->
        ExpNegHalf(Dot(<<X[i][1] - Y[j][1], X[i][2] - Y[j][2]>>,
                       <<X[i][1] - Y[j][1], X[i][2] - Y[j][2]>>))]]

\* K + L - KL - KL.T, entry (i, j)
MMDTerm(X, Y, i, j) ==
    KernelEval(X, X)[i][j] + KernelEval(Y, Y)[i][j]
    - KernelEval(X, Y)[i][j] - KernelEval(X, Y)[j][i]

\* GammaMMDTest.perform_test up to the p-value.  A = 10n*test_stat,
\* B = 5n^2*meanMMD, V = 50n^2(n-1)^2*varMMD.  al = meanMMD**2/varMMD and
\* bet = varMMD*n/meanMMD are not both positive and finite when meanMMD or
\* varMMD is 0, and stats.gamma.sf then answers NaN; otherwise the survival
\* function is read at 2*test_stat/(al*bet) = A/B.
GammaMMD_pvalue(X, Y) ==
    LET n == Len(X)
        A == SumSeq([i \in 1..n |-> SumSeq([j \in 1..n |-> MMDTerm(X, Y, i, j)])])
        B == 10 * n - SumSeq([i \in 1..n |-> KernelEval(X, Y)[i][i]])
        V == SumSeq([i \in 1..n |-> SumSeq([j \in 1..n |->
                 IF i = j THEN 0 ELSE MMDTerm(X, Y, i, j) * MMDTerm(X, Y, i, j)])])
    IN  IF B <= 0 \/ V = 0 THEN [kind |-> "nan", v |-> 0]
        ELSE IF A < 0 THEN [kind |-> "num", v |-> 1000]
        ELSE [kind |-> "num", v |-> ExpHalfPermille(A \div B)]

GammaMMD_test_stat(X, Y) ==
    LET n == Len(X)
    IN  Num(SumSeq([i \in 1..n |-> SumSeq([j \in 1..n |-> MMDTerm(X, Y, i, j)])]),
            10 * n)

\* ------------------------------------------------------------ perform_test
NoResult == [kind |-> "none", exc |-> "", alpha |-> 0,
             pvalue |-> [kind |-> "num", v |-> 0], test_stat |-> NaN,
             h0_rejected |-> FALSE]

RaiseResult(e) == [NoResult EXCEPT !.kind = "raise", !.exc = e]

\* results = {'alpha': self.alpha, 'pvalue': pvalue, 'test_stat': stat,
\*            'h0_rejected': pvalue < alpha}
Results(alpha, pvalue, s) ==
    [kind |-> "ok", exc |-> "", alpha |-> alpha, pvalue |-> pvalue,
     test_stat |-> s, h0_rejected |-> PyLess(pvalue, alpha)]

\* the possible values of self.compute_stat(tst_data)
compute_stat(o) ==
    CASE o.cls = "SmoothCFTest" -> SmoothCF_compute_stat(o.X, o.Y, o.T, o.gamma)
      [] o.cls = "MeanEmbeddingTest" -> MeanEmbedding_compute_stat(o.X, o.Y, o.T, o.gamma)
      [] o.cls = "HotellingT2Test" -> Hotelling_compute_stat(o.X, o.Y)
      [] o.cls = "GammaMMDTest" -> {Raise("NotImplementedError")}

\* degrees of freedom: d, 2J, J
DegreesOfFreedom(o) ==
    CASE o.cls = "SmoothCFTest" -> 2 * Len(o.T)
      [] o.cls = "MeanEmbeddingTest" -> Len(o.T)
      [] OTHER -> 2

\* the possible outcomes of perform_test(tst_data)
perform_test(o, mode) ==
    IF o.cls = "GammaMMDTest"
    THEN IF Len(o.X) # Len(o.Y) THEN {RaiseResult("ValueError")}
         ELSE IF Len(o.X) = 1 THEN {RaiseResult("ZeroDivisionError")}
         ELSE {Results(o.alpha, GammaMMD_pvalue(o.X, o.Y), GammaMMD_test_stat(o.X, o.Y))}
    ELSE {IF st.kind = "raise" THEN RaiseResult(st.exc)
          ELSE Results(o.alpha, Chi2Sf(st, DegreesOfFreedom(o)), st)
          : st \in IF NaN \in compute_stat(o)
                   THEN {IF mode = "nan" THEN NaN ELSE Raise("LinAlgError")}
                   ELSE compute_stat(o)}

\* ------------------------------------------------- the tests: state, steps

\* np.linalg.solve on a matrix of NaN either carries the NaN through or
\* reports a singular matrix: one of the two in a given build, every call
InBuild(outcomes) ==
    IF NaN \in outcomes
    THEN {IF solve_nan = "nan" THEN NaN ELSE Raise("LinAlgError")}
    ELSE outcomes

HasFeatures(cls) == cls \in {"SmoothCFTest", "MeanEmbeddingTest"}

TestParams(cls) ==
    CASE cls = "SmoothCFTest" -> TestFreqs
      [] cls = "MeanEmbeddingTest" -> TestLocs
      [] OTHER -> {<<>>}

\* every test object the constructors build, with every pair of samples
TestObjects ==
    UNION {[cls : {c}, alpha : Alphas, X : XSamples, Y : YSamples,
            T : TestParams(c),
            gamma : IF HasFeatures(c) THEN GaussianWidths ELSE {1}]
           : c \in Classes}

NoZ == [kind |-> "none", z |-> <<>>]

NoStat == [kind |-> "none", num |-> 0, den |-> 0, exc |-> ""]

NoTest == [cls |-> "none", alpha |-> 0, X |-> <<>>, Y |-> <<>>, T |-> <<>>, gamma |-> 1]

\* tst_data with its two samples exchanged
Swapped(o) == [o EXCEPT !.X = o.Y, !.Y = o.X]

\* the feature matrix Z of a test object's data
construct_z(o) ==
    IF o.cls = "SmoothCFTest" THEN SmoothCF_construct_z(o.X, o.Y, o.T, o.gamma)
    ELSE MeanEmbedding_z(o.X, o.Y, o.T, o.gamma)

\* the features of tst_data and of the swapped tst_data
ConstructZ ==
    /\ tpc = "new"
    /\ HasFeatures(tst.cls)
    /\ zres' = [xy |-> construct_z(tst), yx |-> construct_z(Swapped(tst))]
    /\ tpc' = "z"
    /\ UNCHANGED <<tst, stat, res, solve_nan, optVars, concVars, objVars>>

\* compute_stat on tst_data and on the swapped tst_data
ComputeStat ==
    /\ \/ tpc = "z"
       \/ tpc = "new" /\ tst.cls = "HotellingT2Test"
    /\ \E a \in InBuild(compute_stat(tst)),
          b \in InBuild(compute_stat(Swapped(tst))) :
          stat' = [xy |-> a, yx |-> b]
    /\ tpc' = "stat"
    /\ UNCHANGED <<tst, zres, res, solve_nan, optVars, concVars, objVars>>

\* perform_test on tst_data
PerformTest ==
    /\ \/ tpc = "stat"
       \/ tpc = "new" /\ tst.cls = "GammaMMDTest"
    /\ res' \in perform_test(tst, solve_nan)
    /\ tpc' = "tested"
    /\ UNCHANGED <<tst, zres, stat, solve_nan, optVars, concVars, objVars>>

\* ================================== seeded draws called from two threads
\* SmoothCFTest.create_randn and MeanEmbeddingTest.init_locs_randn:
\* get_state, seed, draw, set_state, each one call into numpy
SeededDraws == {"create_randn", "init_locs_randn"}

\* the seeded constructors; create_fit_gauss_heuristic builds the test
\* before it puts the saved state back, create_randn after
SeededCtors == SeededDraws \cup {"create_fit_gauss_heuristic"}

Procs == {1, 2}

NoCall == [fn |-> "none", seed |-> 0, mean_std |-> 0]

\* the draw of a seeded constructor in generator state st
DrawOf(c, st) ==
    IF c.fn = "create_randn" THEN Randn(st) ELSE MultivariateNormal(st, c.mean_std)

\* rand_state = np.random.get_state()
GetState(p) ==
    /\ cpc[p] = "get_state"
    /\ rand_state' = [rand_state EXCEPT ![p] = rng]
    /\ cpc' = [cpc EXCEPT ![p] = "seed"]
    /\ UNCHANGED <<rng, cargs, drawn, optIdle, testVars, objVars>>

\* np.random.seed(seed)
SeedRng(p) ==
    /\ cpc[p] = "seed"
    /\ rng' = SeedState(cargs[p].seed)
    /\ cpc' = [cpc EXCEPT ![p] = "draw"]
    /\ UNCHANGED <<cargs, rand_state, drawn, optIdle, testVars, objVars>>

\* T = np.random.randn(J, d)  /  T0 = np.random.multivariate_normal(...)
Draw(p) ==
    /\ cpc[p] = "draw"
    /\ drawn' = [drawn EXCEPT ![p] = DrawOf(cargs[p], rng)]
    /\ rng' = RngNext(rng)
    /\ cpc' = [cpc EXCEPT ![p] = IF cargs[p].fn = "create_fit_gauss_heuristic"
                                  THEN "construct" ELSE "set_state"]
    /\ UNCHANGED <<cargs, rand_state, optIdle, testVars, objVars>>

\* np.random.set_state(rand_state)
SetState(p) ==
    /\ cpc[p] = "set_state"
    /\ rng' = rand_state[p]
    /\ cpc' = [cpc EXCEPT ![p] = IF cargs[p].fn = "create_randn"
                                  THEN "construct" ELSE "done"]
    /\ UNCHANGED <<cargs, rand_state, drawn, optIdle, testVars, objVars>>

\* SmoothCFTest(T, gamma, alpha=alpha) / MeanEmbeddingTest(test_locs=T,
\* gaussian_width=gamma, alpha=alpha): the gaussian_width setter raises
\* ValueError unless gamma > 0; gamma is the average standard deviation of
\* the data
Construct(p) ==
    /\ cpc[p] = "construct"
    /\ cpc' = [cpc EXCEPT ![p] = IF cargs[p].mean_std <= 0 THEN "raised"
                                  ELSE IF cargs[p].fn = "create_randn" THEN "done"
                                  ELSE "set_state"]
    /\ UNCHANGED <<rng, cargs, rand_state, drawn, optIdle, testVars, objVars>>

\* ======================================= the objective on a mini-batch
\* entries of the one-column feature matrix Z of the whole sample
ZValues == {-1, 0, 1, 2}

\* X[ind, :]: the rows of the batch
RECURSIVE BatchRows(_, _)
BatchRows(Z, ind) ==
    IF ind = {} THEN <<>>
    ELSE LET i == CHOOSE x \in ind : \A y \in ind : y <= x
         IN  Append(BatchRows(Z, ind \ {i}), Z[i + 1])

\* W = Z.sum(axis=0)/nx, nx the row count of the whole sample
TheanoW(Zb, nx) == Num(SumSeq(Zb), nx)

\* s = nlinalg.matrix_inverse(Sig).dot(W).dot(W)*nx with Z0 = Z - W and
\* Sig = Z0.T.dot(Z0)/nx.  With sm the sum of the rows, Z0_i = (nx z_i - sm)/nx,
\* Sig = q/nx^3 for q the sum of (nx z_i - sm)^2, and s = sm^2 nx^2/q; Sig = 0
\* makes matrix_inverse raise.
TheanoObjective(Zb, nx) ==
    LET sm == SumSeq(Zb)
        q == SumSeq([i \in 1..Len(Zb) |-> (nx * Zb[i] - sm) * (nx * Zb[i] - sm)])
    IN  IF q = 0 THEN Raise("LinAlgError") ELSE Num(sm * sm * nx * nx, q)

\* ind = np.random.choice(nx, min(int(batch_proportion*nx), nx), replace=False)
DrawBatch ==
    /\ evalpc = "data"
    /\ \E b \in BatchProportions :
          rowsIn' = Choice(rng, Len(Zrows), BatchSize(b, Len(Zrows)))
    /\ rng' = RngNext(rng)
    /\ evalpc' = "batch"
    /\ UNCHANGED <<Zrows, Wval, sval, optIdle, testVars, concVars>>

\* func(X[ind, :], Y[ind, :])
EvalFunc ==
    /\ evalpc = "batch"
    /\ Wval' = TheanoW(BatchRows(Zrows, rowsIn), Len(Zrows))
    /\ sval' = TheanoObjective(BatchRows(Zrows, rowsIn), Len(Zrows))
    /\ evalpc' = "evaluated"
    /\ UNCHANGED <<Zrows, rowsIn, optVars, testVars, concVars>>

\* ====================================================== the specifications
vars == <<optVars, testVars, concVars, objVars>>

\* the loop body on one fixed data set
IterateOnData ==
    IterateWith(FuncOnData(Choice(rng, args.nx, BatchSize(args.bp, args.nx)),
                           T, gamma_sq))

\* the same entry point called again with the same arguments; the global
\* random state is where the first call left it
Rerun ==
    /\ pc \in {"done", "raised"}
    /\ ~prev.valid
    /\ prev' = [valid |-> TRUE, args |-> args, batches |-> batches, ret |-> ret]
    /\ Enter(args)

\* no optimizer call yet, any global random state; no test, no seeded draw
Init ==
    /\ args = NoArgs /\ pc = "idle" /\ rng \in RngStates /\ rng0 = rng
    /\ t = 0 /\ it = 1 /\ gamma_sq = 0 /\ T = 0
    /\ S = <<>> /\ Ts = <<>> /\ gams = <<>> /\ ret = NoRet
    /\ evals = <<>> /\ grads = <<>> /\ faultAt = 0 /\ batches = <<>>
    /\ prev = NoPrev
    /\ tst = NoTest /\ tpc = "none" /\ zres = [xy |-> NoZ, yx |-> NoZ]
    /\ stat = [xy |-> NoStat, yx |-> NoStat] /\ res = NoResult
    /\ solve_nan = "nan"
    /\ cpc = [p \in Procs |-> "done"] /\ cargs = [p \in Procs |-> NoCall]
    /\ rand_state = [p \in Procs |-> 0] /\ drawn = [p \in Procs |-> 0]
    /\ evalpc = "none" /\ Zrows = <<>> /\ rowsIn = {}
    /\ Wval = NoStat /\ sval = NoStat

\* one call of an optimizer entry point on arbitrary data
Next == Call \/ Iterate \/ Return

Spec == Init /\ [][Next]_vars

\* two calls of an optimizer entry point on the same data
NextRepeat == Call \/ IterateOnData \/ Return \/ Rerun

SpecRepeat == Init /\ [][NextRepeat]_vars

\* a constructed test of every class with every pair of samples
InitTest ==
    /\ args = NoArgs /\ pc = "idle" /\ rng = 0 /\ rng0 = 0
    /\ t = 0 /\ it = 1 /\ gamma_sq = 0 /\ T = 0
    /\ S = <<>> /\ Ts = <<>> /\ gams = <<>> /\ ret = NoRet
    /\ evals = <<>> /\ grads = <<>> /\ faultAt = 0 /\ batches = <<>>
    /\ prev = NoPrev
    /\ tst \in TestObjects /\ tpc = "new" /\ zres = [xy |-> NoZ, yx |-> NoZ]
    /\ stat = [xy |-> NoStat, yx |-> NoStat] /\ res = NoResult
    /\ solve_nan \in {"nan", "raise"}
    /\ cpc = [p \in Procs |-> "done"] /\ cargs = [p \in Procs |-> NoCall]
    /\ rand_state = [p \in Procs |-> 0] /\ drawn = [p \in Procs |-> 0]
    /\ evalpc = "none" /\ Zrows = <<>> /\ rowsIn = {}
    /\ Wval = NoStat /\ sval = NoStat

NextTest == ConstructZ \/ ComputeStat \/ PerformTest

SpecTest == InitTest /\ [][NextTest]_vars

\* two seeded draws about to start, in any global random state
InitConc ==
    /\ args = NoArgs /\ pc = "idle" /\ rng \in RngStates /\ rng0 = rng
    /\ t = 0 /\ it = 1 /\ gamma_sq = 0 /\ T = 0
    /\ S = <<>> /\ Ts = <<>> /\ gams = <<>> /\ ret = NoRet
    /\ evals = <<>> /\ grads = <<>> /\ faultAt = 0 /\ batches = <<>>
    /\ prev = NoPrev
    /\ tst = NoTest /\ tpc = "none" /\ zres = [xy |-> NoZ, yx |-> NoZ]
    /\ stat = [xy |-> NoStat, yx |-> NoStat] /\ res = NoResult
    /\ solve_nan = "nan"
    /\ cpc = [p \in Procs |-> "get_state"]
    /\ cargs \in [Procs -> [fn : SeededDraws, seed : 1..MaxSeed, mean_std : MeanStds]]
    /\ rand_state = [p \in Procs |-> 0] /\ drawn = [p \in Procs |-> 0]
    /\ evalpc = "none" /\ Zrows = <<>> /\ rowsIn = {}
    /\ Wval = NoStat /\ sval = NoStat

\* the numpy calls of the two draws, interleaved
NextConc ==
    \E p \in Procs : GetState(p) \/ SeedRng(p) \/ Draw(p) \/ SetState(p) \/ Construct(p)

SpecConc == InitConc /\ [][NextConc]_vars

\* a sample's features, a mini-batch still to be drawn
InitObjective ==
    /\ args = NoArgs /\ pc = "idle" /\ rng \in RngStates /\ rng0 = rng
    /\ t = 0 /\ it = 1 /\ gamma_sq = 0 /\ T = 0
    /\ S = <<>> /\ Ts = <<>> /\ gams = <<>> /\ ret = NoRet
    /\ evals = <<>> /\ grads = <<>> /\ faultAt = 0 /\ batches = <<>>
    /\ prev = NoPrev
    /\ tst = NoTest /\ tpc = "none" /\ zres = [xy |-> NoZ, yx |-> NoZ]
    /\ stat = [xy |-> NoStat, yx |-> NoStat] /\ res = NoResult
    /\ solve_nan = "nan"
    /\ cpc = [p \in Procs |-> "done"] /\ cargs = [p \in Procs |-> NoCall]
    /\ rand_state = [p \in Procs |-> 0] /\ drawn = [p \in Procs |-> 0]
    /\ evalpc = "data" /\ Zrows \in UNION {[1..n -> ZValues] : n \in 2..MaxN}
    /\ rowsIn = {} /\ Wval = NoStat /\ sval = NoStat

\* one evaluation of func on a mini-batch
NextObjective == DrawBatch \/ EvalFunc

SpecObjective == InitObjective /\ [][NextObjective]_vars

\* one call of a seeded constructor, on data that may have no spread
InitCtor ==
    /\ args = NoArgs /\ pc = "idle" /\ rng \in RngStates /\ rng0 = rng
    /\ t = 0 /\ it = 1 /\ gamma_sq = 0 /\ T = 0
    /\ S = <<>> /\ Ts = <<>> /\ gams = <<>> /\ ret = NoRet
    /\ evals = <<>> /\ grads = <<>> /\ faultAt = 0 /\ batches = <<>>
    /\ prev = NoPrev
    /\ tst = NoTest /\ tpc = "none" /\ zres = [xy |-> NoZ, yx |-> NoZ]
    /\ stat = [xy |-> NoStat, yx |-> NoStat] /\ res = NoResult
    /\ solve_nan = "nan"
    /\ cpc = [p \in Procs |-> IF p = 1 THEN "get_state" ELSE "done"]
    /\ \E c \in [fn : SeededCtors, seed : 1..MaxSeed, mean_std : MeanStds \cup {0}] :
          cargs = [p \in Procs |-> IF p = 1 THEN c ELSE NoCall]
    /\ rand_state = [p \in Procs |-> 0] /\ drawn = [p \in Procs |-> 0]
    /\ evalpc = "none" /\ Zrows = <<>> /\ rowsIn = {}
    /\ Wval = NoStat /\ sval = NoStat

NextCtor ==
    \E p \in Procs : GetState(p) \/ SeedRng(p) \/ Draw(p) \/ Construct(p) \/ SetState(p)

SpecCtor == InitCtor /\ [][NextCtor]_vars

\* ============================================================= the claims

\* C1: in both optimizer variants a numerical fault at iteration k (any k
\* from 1 to max_iter) is not propagated: the call returns normally, its
\* trace holding exactly the iterations that succeeded before k and its
\* results being the last entries of that trace.
FaultAbsorbed ==
    (faultAt # 0 /\ pc \in {"done", "raised"}) =>
        /\ pc = "done"
        /\ ret.kind = "ok"
        /\ ret.obj_values = evals
        /\ Len(ret.gwidths) = faultAt - 1

\* C2: when an optimizer entry point has returned, the process-wide numpy
\* random state equals the state observed just before the call.
RandomStateRestored == pc = "done" => rng = rng0

\* C3: two runs of a joint entry point with the same data, hyperparameters
\* and seed draw the same T0 and the same sequence of mini-batches and return
\* the same T, bandwidth and trace, whatever the global random state each
\* run starts in.
SeedReproducible ==
    (prev.valid /\ pc \in {"done", "raised"} /\ IsJoint) =>
        /\ args.T0 = prev.args.T0
        /\ batches = prev.batches
        /\ ret = prev.ret

\* C4: with max_iter >= 3, no fault and an objective constant from iteration
\* 2 onward, either variant stops at iteration 3 and every returned trace
\* array has length 3.
ConstantObjectiveTraceLength ==
    (/\ pc \in {"done", "raised"}
     /\ faultAt = 0
     /\ args.max_iter >= 3
     /\ \A i \in 2..Len(evals) : evals[i] = evals[2]) =>
        /\ pc = "done"
        /\ Len(evals) = 3
        /\ Len(ret.obj_values) = 3
        /\ Len(ret.gwidths) = 3
        /\ IsJoint => Len(ret.Ts) = 3

\* C5: every bandwidth recorded in the returned trace, and the bandwidth
\* returned, is strictly greater than 0.
BandwidthPositive ==
    pc = "done" =>
        /\ ret.gwidth > 0
        /\ \A i \in 1..Len(ret.gwidths) : ret.gwidths[i] > 0

\* C6: for every test class, the mapping perform_test returns has 'alpha'
\* equal to the alpha of the test, 'pvalue' in [0,1] and 'h0_rejected' true
\* exactly when pvalue < alpha.
PerformTestResult ==
    (tpc = "tested" /\ res.kind = "ok") =>
        /\ res.alpha = tst.alpha
        /\ res.pvalue.kind = "num"
        /\ res.pvalue.v \in 0..1000
        /\ res.h0_rejected <=> res.pvalue.v < res.alpha

\* C7: for both feature maps, when X and Y have different numbers of rows
\* (one of them may have exactly one row) computing the features or the
\* statistic fails with an error and returns no value.
RowMismatchRaises ==
    (HasFeatures(tst.cls) /\ Len(tst.X) # Len(tst.Y)) =>
        /\ tpc = "z" => zres.xy.kind = "raise"
        /\ tpc = "stat" => stat.xy.kind = "raise"

\* C8: when two seeded draws run with their get_state / seed / draw /
\* set_state steps interleaved, each obtains the draw its own seed
\* determines, and once both have returned the global random state is the
\* state before either started.
ConcurrentSeededDraws ==
    (\A p \in Procs : cpc[p] = "done") =>
        /\ \A p \in Procs : drawn[p] = DrawOf(cargs[p], SeedState(cargs[p].seed))
        /\ rng = rng0

\* C9: whatever stopped the loop, each variant returns the T and the
\* bandwidth the optimizer state held after the last completed iteration,
\* the trace has one entry per completed iteration, and the returned values
\* are the last trace entry.
ReturnsLastIterate ==
    pc \in {"done", "raised"} =>
        /\ pc = "done"
        /\ ret.gwidth = Sqr(gamma_sq)
        /\ IsJoint => ret.T = T
        /\ Len(ret.obj_values) = Len(evals)
        /\ Len(ret.gwidths) = Len(evals)
        /\ ret.gwidth = ret.gwidths[Len(ret.gwidths)]

\* C10: for both feature maps and samples with equal row counts, swapping
\* the samples negates the feature matrix entry by entry, and compute_stat
\* gives the same value for (X, Y) and (Y, X).
SwapInvariant ==
    (HasFeatures(tst.cls) /\ Len(tst.X) = Len(tst.Y)) =>
        /\ tpc \in {"z", "stat", "tested"} =>
              /\ zres.xy.kind = "ok"
              /\ zres.yx.kind = "ok"
              /\ \A i \in 1..Len(zres.xy.z) : \A j \in 1..Len(zres.xy.z[i]) :
                    zres.yx.z[i][j] = -zres.xy.z[i][j]
        /\ tpc \in {"stat", "tested"} => stat.xy = stat.yx

\* a statistic computed from features that are not all zero
SwapInvariantWitness ==
    /\ tpc = "stat"
    /\ HasFeatures(tst.cls)
    /\ Len(tst.X) = Len(tst.Y)
    /\ \E i \in 1..Len(zres.xy.z) : \E j \in 1..Len(zres.xy.z[i]) : zres.xy.z[i][j] # 0
    /\ stat.xy.kind = "num"
    /\ stat.xy.num > 0
    /\ stat.yx = stat.xy

\* C11 as stated: with it counting the iterations from 1, the loop stops at
\* the first iteration it >= 2 with |s_it - s_(it-1)| <= tol_fun; when the
\* first two objective values are within tol_fun there is no third iteration.
StopsFromSecondIteration ==
    (pc \in {"after", "done", "raised"} /\ faultAt = 0) =>
        /\ Len(evals) < args.max_iter =>
              /\ Len(evals) >= 2
              /\ Abs(evals[Len(evals)] - evals[Len(evals) - 1]) <= TolFun
        /\ \A i \in 2..(Len(evals) - 1) : Abs(evals[i] - evals[i - 1]) > TolFun

\* C11 amended: the loop stops at the first iteration it >= 3 with
\* |s_it - s_(it-1)| <= tol_fun (the code tests the 0-based t >= 2); the
\* first comparison made is that of the third with the second value, so a
\* third iteration is performed whenever max_iter >= 3 and no fault occurs.
StopsFromThirdIteration ==
    /\ (pc \in {"after", "done", "raised"} /\ faultAt = 0) =>
          /\ Len(evals) < args.max_iter =>
                /\ Len(evals) >= 3
                /\ Abs(evals[Len(evals)] - evals[Len(evals) - 1]) <= TolFun
          /\ \A i \in 3..(Len(evals) - 1) : Abs(evals[i] - evals[i - 1]) > TolFun
    /\ pc = "loop" =>
          /\ Len(evals) < args.max_iter
          /\ \A i \in 3..Len(evals) : Abs(evals[i] - evals[i - 1]) > TolFun

\* the first two values within tol_fun, a third iteration made, the loop
\* stopped there before max_iter
StopsFromThirdIterationWitness ==
    /\ pc = "done"
    /\ faultAt = 0
    /\ args.max_iter > 3
    /\ Len(evals) = 3
    /\ Abs(evals[2] - evals[1]) <= TolFun
    /\ Abs(evals[3] - evals[2]) <= TolFun

\* C12: at every iteration the mini-batch is a set of distinct indices of
\* {0..n-1} of size exactly ceil(batch_proportion*n), hence never empty, and
\* for batch_proportion = 1.0 it is the full index set.
BatchSizeIsCeiling ==
    \A i \in 1..Len(batches) :
        /\ batches[i] \subseteq 0..(args.nx - 1)
        /\ Cardinality(batches[i])
              = (args.bp[1] * args.nx + args.bp[2] - 1) \div args.bp[2]
        /\ batches[i] # {}
        /\ args.bp = <<1, 1>> => batches[i] = 0..(args.nx - 1)

\* C13: at the k-th successful iteration the decay counter read by the
\* update is k and becomes k + 1, and the unconstrained width variable
\* changes by gwidth_step_size*sign(g)*min(|g|, 1.0)/k^0.5: the change has
\* the sign of g and absolute value at most gwidth_step_size/k^0.5.
DecayedClippedStep ==
    [][(pc = "loop" /\ evals' # evals) =>
          LET k == Len(evals')
              g == grads'[k]
              change == gamma_sq' - gamma_sq
          IN  /\ it = k
              /\ it' = k + 1
              /\ change = Sgn(g) * ((args.gwidth_step_size
                                       * Min2(Abs(g), MaxGamSqStep) * DecayMilli(k))
                                      \div (Milli * Milli))
              /\ Sgn(change) \in {0, Sgn(g)}
              /\ Abs(change) <= (args.gwidth_step_size * DecayMilli(k)) \div Milli]_vars

\* a second successful iteration whose gradient was clipped
DecayedClippedStepWitness ==
    /\ pc = "loop"
    /\ Len(evals) = 2
    /\ it = 3
    /\ grads[2] > MaxGamSqStep
    /\ grads[1] < 0

\* C14: for every mini-batch of size b <= n the recorded objective is
\* computed from the batch alone: W is the sum of the b batch rows divided
\* by b, and the value is the objective function applied to the b-row batch
\* (its Sigma the covariance of those rows about that mean), not a quantity
\* normalised by the full sample size n.
ObjectiveOfBatchAlone ==
    (evalpc = "evaluated" /\ rowsIn # {}) =>
        /\ Wval = Num(SumSeq(BatchRows(Zrows, rowsIn)), Cardinality(rowsIn))
        /\ sval = TheanoObjective(BatchRows(Zrows, rowsIn), Cardinality(rowsIn))

\* C15: each seeded constructor leaves the global random state equal to
\* its value before the call on every exit path, the paths where the call
\* raises included.
StateRestoredOnEveryExit ==
    \A p \in Procs :
        (cargs[p].fn \in SeededCtors /\ cpc[p] \in {"done", "raised"}) => rng = rng0

====
